---- MODULE Spec2Model ----
(***************************************************************************)
(* Entity resolution and graph merge pipeline of                           *)
(* scripts/knowledge_graph: 4_entity_aligner.py (EntityAligner) and        *)
(* 5_import_to_neo4j.py (KnowledgeGraphImporter).                          *)
(*                                                                         *)
(* Labels are sequences of one-character strings, so that normalize_label  *)
(* (remove colons, strip blanks) is computed character by character.       *)
(* Names and mentions are atomic strings.  Similarity scores are integers  *)
(* in units of 1e-5 (85000 is 0.85).                                       *)
(***************************************************************************)
EXTENDS Integers, Sequences, FiniteSets, TLC

VARIABLES
    \* ---- inputs of the pipeline (files on disk) ----
    catalogExists,      \* os.path.exists(CMEKG_CSV_PATH)
    catalog,            \* rows of the reference catalog CSV: [id, name, label]
    jsonPathExists,     \* EXTRACTED_JSON_PATH is a directory (else: no such path)
    files,              \* the extraction files: [parses, triples]
    \* ---- EntityAligner ----
    pc,                 \* position of EntityAligner.run
    cmekg_groups,       \* normalized label -> sequence of reference entities
    extracted_groups,   \* sequence of [label, names] in dict insertion order
    valid_files_count,  \* load_extracted_data counter
    total_triples,      \* load_extracted_data counter
    next_group,         \* index of the next label group of the loop in run()
    searched,           \* labels for which embedding + index search was run
    search_out,         \* raw output of index.search: [label, name, score, idx]
    all_results,        \* run(): all_results
    artifactExists,     \* OUTPUT_CSV_PATH exists
    artifact,           \* rows of the alignment CSV as written by to_csv
    \* ---- KnowledgeGraphImporter: load_alignment_map / prepare_data ----
    ipc,                \* position of the importer's main
    mapping,            \* load_alignment_map result: set of [key, target_name, action]
    cleaned_triplets,   \* prepare_data result
    \* ---- KnowledgeGraphImporter.batch_import against the graph store ----
    nodes,              \* set of nodes [id, label, name, source, created_at]
    edges,              \* set of edges [id, s, type, e, source, confidence, created_at]
    next_id,            \* next fresh element id of the store
    clock,              \* the store's timestamp(): one tick per batch_import call
    bpc,                \* position of batch_import
    triplets,           \* argument of the running (or last) batch_import call
    grouped,            \* batch_import: sequence of [key, batch] in insertion order
    current_batch,      \* batch_import: current_batch
    failed_groups,      \* keys of the groups whose write raised in this call
    runs,               \* number of batch_import calls started
    history             \* the last two calls: [triplets, before, after, failed]

pipeVars == <<catalogExists, catalog, jsonPathExists, files, pc, cmekg_groups,
              extracted_groups, valid_files_count, total_triples, next_group,
              searched, search_out, all_results, artifactExists, artifact,
              ipc, mapping, cleaned_triplets>>

graphVars == <<nodes, edges, next_id, clock, bpc, triplets, grouped,
               current_batch, failed_groups, runs, history>>

vars == <<pipeVars, graphVars>>

----------------------------------------------------------------------------
(* Generic helpers                                                         *)

Range(s) == {s[i] : i \in DOMAIN s}

RECURSIVE SetToSeq(_)
SetToSeq(S) ==
    IF S = {} THEN <<>>
    ELSE LET x == CHOOSE y \in S : TRUE IN <<x>> \o SetToSeq(S \ {x})

----------------------------------------------------------------------------
(* Values                                                                  *)

\* pandas NaN / Python None in a label cell (pd.isna(label) is true)
NaNLabel == <<"<NaN>">>
\* pandas NaN / Python None in a name cell
NaNName == "<NaN>"
\* a key that is absent from a triple's dict
AbsentLabel == <<"<absent>">>
AbsentName == "<absent>"

Unknown == <<"U", "n", "k", "n", "o", "w", "n">>

\* the action tags of the aligner (an emoji, a blank, the words)
LinkExisting == "[link] Link Existing"
CreateNew == "[new] Create New"
\* the action of prepare_data's default record
DefaultCreateNew == "Create New"

\* Python's "sub in action" for the action strings of the pipeline
Contains(action, sub) ==
    <<action, sub>> \in {<<LinkExisting, "Link Existing">>,
                         <<CreateNew, "Create New">>,
                         <<DefaultCreateNew, "Create New">>}

\* matched_id of a row without a match (None)
NoId == 0

\* SIMILARITY_THRESHOLD = 0.85, in units of 1e-5
SIMILARITY_THRESHOLD == 85000

----------------------------------------------------------------------------
(* normalize_label (identical in both classes)                             *)

RECURSIVE RemoveColons(_)
RemoveColons(s) ==
    IF s = <<>> THEN <<>>
    ELSE IF Head(s) = ":" THEN RemoveColons(Tail(s))
         ELSE <<Head(s)>> \o RemoveColons(Tail(s))

RECURSIVE LStrip(_)
LStrip(s) == IF s # <<>> /\ Head(s) = " " THEN LStrip(Tail(s)) ELSE s

RECURSIVE RStrip(_)
RStrip(s) ==
    IF s # <<>> /\ s[Len(s)] = " " THEN RStrip(SubSeq(s, 1, Len(s) - 1)) ELSE s

Strip(s) == RStrip(LStrip(s))

normalize_label(label) ==
    IF label = NaNLabel \/ label = <<>> THEN Unknown
    ELSE Strip(RemoveColons(label))

----------------------------------------------------------------------------
(* Bounds and input domains                                                *)

MaxCatalog == 2      \* rows in the reference catalog
MaxFiles == 2        \* extraction files in the input directory
MaxTriples == 2      \* triples over all extraction files

\* rows the reference catalog may hold: a name under D, another name under D,
\* and the first name again under P
CatalogRows ==
    { [name |-> "a", label |-> <<":", "D">>],
      [name |-> "b", label |-> <<":", "D">>],
      [name |-> "a", label |-> <<"P">>] }

T(s, sl, e, el, ty) ==
    [start |-> s, start_label |-> sl, end |-> e, end_label |-> el, type_ |-> ty]

\* raw triples as the extraction step may emit them
TripleDomain ==
    { T("a", <<":", "D">>, "a", <<"P">>, "T"),        \* same string under D and P
      T("a", <<":">>, "NA", <<"D", " ">>, "T"),       \* label of colons only
      T("b", <<"D">>, "a", AbsentLabel, "T"),         \* no end_label key
      T("b", <<"D">>, AbsentName, <<"P">>, "T") }     \* no end key

\* source_chunk.source_file of the records of the i-th file
SourceFile == <<"doc1", "doc2", "doc3", "doc4">>

SeqsUpTo(S, n) == UNION {[1..k -> S] : k \in 0..n}

\* the shape of the input directory: per file the number of triples it holds
\* (at least one), or Unparseable for a file json.load rejects
Unparseable == 0 - 1
FileShapes == SeqsUpTo({Unparseable} \cup (1..MaxTriples), MaxFiles)

RECURSIVE ShapeTriples(_)
ShapeTriples(sh) ==
    IF sh = <<>> THEN 0
    ELSE (IF Head(sh) = Unparseable THEN 0 ELSE Head(sh)) + ShapeTriples(Tail(sh))

RECURSIVE BuildFiles(_, _)
BuildFiles(ts, sh) ==
    IF sh = <<>> THEN <<>>
    ELSE IF Head(sh) = Unparseable
         THEN <<[parses |-> FALSE, triples |-> <<>>]>> \o BuildFiles(ts, Tail(sh))
         ELSE <<[parses |-> TRUE, triples |-> SubSeq(ts, 1, Head(sh))]>>
              \o BuildFiles(SubSeq(ts, Head(sh) + 1, Len(ts)), Tail(sh))

FileLists ==
    {BuildFiles(p[1], p[2]) :
        p \in {q \in SeqsUpTo(TripleDomain, MaxTriples) \X FileShapes :
                  ShapeTriples(q[2]) = Len(q[1])}}

Catalogs ==
    {[i \in DOMAIN rows |-> [id |-> i, name |-> rows[i].name, label |-> rows[i].label]]
        : rows \in SeqsUpTo(CatalogRows, MaxCatalog)}

----------------------------------------------------------------------------
(* EntityAligner.load_cmekg_data                                           *)

\* chunk[label_col].fillna("Unknown").astype(str), then normalize_label
CleanLabel(raw) == normalize_label(IF raw = NaNLabel THEN Unknown ELSE raw)

\* subset[subset["label"] != "Unknown"], with the columns renamed
CatalogSubset(rows) ==
    LET clean == [i \in DOMAIN rows |->
                    [id |-> rows[i].id, name |-> rows[i].name,
                     label |-> CleanLabel(rows[i].label)]]
    IN  SelectSeq(clean, LAMBDA r : r.label # Unknown)

\* a grouping that loses the label: every label gets all the rows
GroupByLabelGlobal(subset) ==
    [l \in {subset[i].label : i \in DOMAIN subset} |-> subset]

\* groupby("label") and concat: label -> rows of that label, in file order
GroupByLabel(subset) ==
    [l \in {subset[i].label : i \in DOMAIN subset} |->
        SelectSeq(subset, LAMBDA r : r.label = l)]

LoadCmekgData(rows) == GroupByLabel(CatalogSubset(rows))

load_cmekg_data ==
    /\ pc = "start"
    /\ IF catalogExists
       THEN /\ cmekg_groups' = LoadCmekgData(catalog)
            /\ pc' = "cmekg_loaded"
       ELSE \* sys.exit(1)
            /\ pc' = "exit1"
            /\ UNCHANGED cmekg_groups
    /\ UNCHANGED <<catalogExists, catalog, jsonPathExists, files, extracted_groups,
                   valid_files_count, total_triples, next_group, searched,
                   search_out, all_results, artifactExists, artifact, ipc,
                   mapping, cleaned_triplets>>
    /\ UNCHANGED graphVars

----------------------------------------------------------------------------
(* EntityAligner.load_extracted_data                                       *)

HasKey(map, label) == \E i \in DOMAIN map : map[i].label = label

\* extracted_map[label]: a defaultdict access creates the key with an empty set
Touch(map, label) ==
    IF HasKey(map, label) THEN map
    ELSE Append(map, [label |-> label, names |-> {}])

\* extracted_map[label].add(name)
AddName(map, label, name) ==
    LET m == Touch(map, label)
    IN  [i \in DOMAIN m |->
            IF m[i].label = label
            THEN [m[i] EXCEPT !.names = @ \cup {name}]
            ELSE m[i]]

\* t.get(key, "Unknown")
GetLabel(raw) == IF raw = AbsentLabel THEN Unknown ELSE raw

\* One triple of the inner loop.  st = [map, triples, raised]; t["start"] and
\* t["end"] raise KeyError after the defaultdict access of the same statement.
CollectTriple(st, t) ==
    LET s_label == normalize_label(GetLabel(t.start_label))
        e_label == normalize_label(GetLabel(t.end_label))
    IN  IF t.start = AbsentName
        THEN [st EXCEPT !.map = Touch(st.map, s_label), !.raised = TRUE]
        ELSE LET m1 == AddName(st.map, s_label, t.start)
             IN  IF t.end = AbsentName
                 THEN [st EXCEPT !.map = Touch(m1, e_label), !.raised = TRUE]
                 ELSE [st EXCEPT !.map = AddName(m1, e_label, t.end),
                                 !.triples = @ + 1]

RECURSIVE CollectTriples(_, _)
CollectTriples(st, ts) ==
    IF ts = <<>> \/ st.raised THEN st
    ELSE CollectTriples(CollectTriple(st, Head(ts)), Tail(ts))

\* One file of the outer loop.  acc = [map, files, triples].
CollectFile(acc, f) ==
    IF ~f.parses
    THEN acc        \* json.JSONDecodeError: warning, next file
    ELSE LET st == CollectTriples([map |-> acc.map, triples |-> acc.triples,
                                   raised |-> FALSE], f.triples)
         IN  [map |-> st.map, triples |-> st.triples,
              files |-> IF st.raised THEN acc.files ELSE acc.files + 1]

RECURSIVE CollectFiles(_, _)
CollectFiles(acc, fs) ==
    IF fs = <<>> THEN acc
    ELSE CollectFiles(CollectFile(acc, Head(fs)), Tail(fs))

LoadExtractedData(fs) ==
    CollectFiles([map |-> <<>>, files |-> 0, triples |-> 0], fs)

load_extracted_data ==
    /\ pc = "cmekg_loaded"
    /\ IF jsonPathExists
       THEN LET r == LoadExtractedData(files)
            IN  /\ extracted_groups' = r.map
                /\ valid_files_count' = r.files
                /\ total_triples' = r.triples
       ELSE \* logger.error, return {}
            /\ extracted_groups' = <<>>
            /\ UNCHANGED <<valid_files_count, total_triples>>
    /\ pc' = "groups"
    /\ next_group' = 1
    /\ UNCHANGED <<catalogExists, catalog, jsonPathExists, files, cmekg_groups,
                   searched, search_out, all_results, artifactExists, artifact,
                   ipc, mapping, cleaned_triplets>>
    /\ UNCHANGED graphVars

----------------------------------------------------------------------------
(* EntityAligner.align_vectors_faiss                                       *)

\* round(score, 4): from units of 1e-5 to units of 1e-4
Round4(score) == (score + 5) \div 10

\* the comparison turned around
DecideReversed(score, threshold) ==
    IF score <= threshold THEN "[link] Link Existing" ELSE "[new] Create New"

\* the decision of lines 223-225
Decide(score, threshold) ==
    IF score >= threshold THEN LinkExisting ELSE CreateNew

\* The results loop.  out[i] = [score, idx] is what index.search returned for
\* the i-th query: D[i][0] and I[i][0] (idx counts from 1 here).
AlignVectorsFaiss(extracted_names, cmekg_df, out, threshold) ==
    [i \in DOMAIN extracted_names |->
        LET match_record == cmekg_df[out[i].idx]
        IN  [extracted_name |-> extracted_names[i],
             matched_name |-> match_record.name,
             matched_id |-> match_record.id,
             score |-> Round4(out[i].score),
             action |-> Decide(out[i].score, threshold)]]

\* The embedding model is external: the inner product of the normalized
\* embeddings of a mention and a reference name, in units of 1e-5.  Equal
\* strings embed equally (1.0); 0.85 is exactly the threshold; 0.84996 is just
\* below it and is written as 0.85 by round(score, 4).
Similarity(mention, name) ==
    CASE mention = name -> 100000
      [] {mention, name} = {"a", "b"} -> 91000
      [] {mention, name} = {"NA", "a"} -> 85000
      [] {mention, name} = {"NA", "b"} -> 84996
      [] OTHER -> 0

\* index.search(query_embeddings, 1) over an IndexFlatIP that holds exactly the
\* rows of cmekg_df: for each query the best row and its score.  Which of
\* several equally good rows comes back is up to the index.
BestRows(mention, cmekg_df) ==
    {i \in DOMAIN cmekg_df :
        \A j \in DOMAIN cmekg_df :
            Similarity(mention, cmekg_df[j].name) <= Similarity(mention, cmekg_df[i].name)}

SearchOutputs(extracted_names, cmekg_df) ==
    {out \in [DOMAIN extracted_names ->
                 [score : {Similarity(m, r.name) :
                              m \in Range(extracted_names), r \in Range(cmekg_df)},
                  idx : DOMAIN cmekg_df]] :
        \A i \in DOMAIN out :
            /\ out[i].idx \in BestRows(extracted_names[i], cmekg_df)
            /\ out[i].score = Similarity(extracted_names[i], cmekg_df[out[i].idx].name)}

\* res["label"] = label
WithLabel(results, label) ==
    [i \in DOMAIN results |->
        [extracted_name |-> results[i].extracted_name,
         matched_name |-> results[i].matched_name,
         matched_id |-> results[i].matched_id,
         score |-> results[i].score,
         action |-> results[i].action,
         label |-> label]]

\* the labels without a reference group are skipped
NewEntityRowsSkipped(extracted_names, label) == <<>>

\* the rows of a label without a reference group are tagged as links
NewEntityRowsLinked(extracted_names, label) ==
    [i \in DOMAIN extracted_names |->
        [extracted_name |-> extracted_names[i],
         matched_name |-> extracted_names[i],
         matched_id |-> 0,
         score |-> 0,
         action |-> "[link] Link Existing",
         label |-> label]]

\* the else branch of run(): the label has no reference group
NewEntityRows(extracted_names, label) ==
    [i \in DOMAIN extracted_names |->
        [extracted_name |-> extracted_names[i],
         matched_name |-> NaNName,
         matched_id |-> NoId,
         score |-> 0,
         action |-> CreateNew,
         label |-> label]]

\* one iteration of "for label, extracted_names in extracted_groups.items()"
align_group ==
    /\ pc = "groups"
    /\ next_group <= Len(extracted_groups)
    /\ LET label == extracted_groups[next_group].label
           extracted_names == SetToSeq(extracted_groups[next_group].names)
       IN  IF label \in DOMAIN cmekg_groups
           THEN LET cmekg_df == cmekg_groups[label]
                IN  \/ \E out \in SearchOutputs(extracted_names, cmekg_df) :
                         /\ all_results' = all_results \o
                              WithLabel(AlignVectorsFaiss(extracted_names, cmekg_df,
                                            out, SIMILARITY_THRESHOLD), label)
                         /\ search_out' = search_out \cup
                              {[label |-> label, name |-> extracted_names[i],
                                score |-> out[i].score, idx |-> out[i].idx]
                                 : i \in DOMAIN extracted_names}
                         /\ searched' = searched \cup {label}
                         /\ next_group' = next_group + 1
                         /\ pc' = "groups"
                    \/ \* model.encode / faiss raises: nothing in run() catches it
                       /\ pc' = "crashed"
                       /\ searched' = searched \cup {label}
                       /\ UNCHANGED <<all_results, search_out, next_group>>
           ELSE /\ all_results' = all_results \o NewEntityRows(extracted_names, label)
                /\ next_group' = next_group + 1
                /\ pc' = "groups"
                /\ UNCHANGED <<searched, search_out>>
    /\ UNCHANGED <<catalogExists, catalog, jsonPathExists, files, cmekg_groups,
                   extracted_groups, valid_files_count, total_triples,
                   artifactExists, artifact, ipc, mapping, cleaned_triplets>>
    /\ UNCHANGED graphVars

----------------------------------------------------------------------------
(* EntityAligner.run: export of the alignment CSV                          *)

\* code points of the characters that occur in labels
Code(c) ==
    CASE c = " " -> 32 [] c = ":" -> 58 [] c = "A" -> 65 [] c = "D" -> 68
      [] c = "N" -> 78 [] c = "P" -> 80 [] c = "U" -> 85 [] c = "k" -> 107
      [] c = "n" -> 110 [] c = "o" -> 111 [] c = "w" -> 119

\* Python's str comparison a < b
RECURSIVE StrLess(_, _)
StrLess(a, b) ==
    IF b = <<>> THEN FALSE
    ELSE IF a = <<>> THEN TRUE
    ELSE IF Head(a) = Head(b) THEN StrLess(Tail(a), Tail(b))
    ELSE Code(Head(a)) < Code(Head(b))

\* sort_values(by=["label", "score"], ascending=[True, False])
RowBefore(r1, r2) ==
    \/ StrLess(r1.label, r2.label)
    \/ r1.label = r2.label /\ r1.score > r2.score

RECURSIVE InsertRow(_, _)
InsertRow(sorted, r) ==
    IF sorted = <<>> THEN <<r>>
    ELSE IF RowBefore(r, Head(sorted)) THEN <<r>> \o sorted
    ELSE <<Head(sorted)>> \o InsertRow(Tail(sorted), r)

RECURSIVE SortValues(_)
SortValues(rows) ==
    IF rows = <<>> THEN <<>>
    ELSE InsertRow(SortValues(SubSeq(rows, 1, Len(rows) - 1)), rows[Len(rows)])

\* to_csv: None/NaN becomes the empty field, a string is written as it is
WriteNameCell(v) == IF v = NaNName THEN "" ELSE v
WriteLabelCell(v) == IF v = NaNLabel THEN <<>> ELSE v

ToCsv(rows) ==
    [i \in DOMAIN rows |->
        [label |-> WriteLabelCell(rows[i].label),
         extracted_name |-> WriteNameCell(rows[i].extracted_name),
         action |-> rows[i].action,
         score |-> rows[i].score,
         matched_name |-> WriteNameCell(rows[i].matched_name),
         matched_id |-> rows[i].matched_id]]

export_results ==
    /\ pc = "groups"
    /\ next_group > Len(extracted_groups)
    /\ IF all_results # <<>>
       THEN /\ artifact' = ToCsv(SortValues(all_results))
            /\ artifactExists' = TRUE
       ELSE UNCHANGED <<artifact, artifactExists>>
    /\ pc' = "done"
    /\ UNCHANGED <<catalogExists, catalog, jsonPathExists, files, cmekg_groups,
                   extracted_groups, valid_files_count, total_triples, next_group,
                   searched, search_out, all_results, ipc, mapping,
                   cleaned_triplets>>
    /\ UNCHANGED graphVars

----------------------------------------------------------------------------
(* KnowledgeGraphImporter.load_alignment_map                               *)

\* pd.read_csv: fields that pandas reads as NaN (its default na_values)
NaStrings == {"", "NA", "N/A", "NULL", "NaN", "None", "n/a", "nan", "null"}
NaLabelCells == {<<>>, <<"N", "A">>}

ReadNameCell(c) == IF c \in NaStrings THEN NaNName ELSE c
ReadLabelCell(c) == IF c \in NaLabelCells THEN NaNLabel ELSE c

\* pd.read_csv followed by df["label"].apply(self.normalize_label)
ReadCsv(rows) ==
    [i \in DOMAIN rows |->
        [label |-> normalize_label(ReadLabelCell(rows[i].label)),
         extracted_name |-> ReadNameCell(rows[i].extracted_name),
         action |-> rows[i].action,
         matched_name |-> ReadNameCell(rows[i].matched_name)]]

\* the body of "for _, row in df.iterrows()"
TargetName(row) ==
    IF Contains(row.action, "Link Existing") THEN row.matched_name
    ELSE row.extracted_name

\* mapping[key] = value
DictSet(m, key, value) ==
    [k \in DOMAIN m \cup {key} |-> IF k = key THEN value ELSE m[k]]

RECURSIVE BuildMapping(_, _)
BuildMapping(m, rows) ==
    IF rows = <<>> THEN m
    ELSE LET row == Head(rows)
         IN  BuildMapping(
                 DictSet(m, <<row.extracted_name, row.label>>,
                         [target_name |-> TargetName(row), action |-> row.action]),
                 Tail(rows))

EmptyDict == [k \in {} |-> 0]

LoadAlignmentMap(exists, rows) ==
    IF ~exists THEN EmptyDict ELSE BuildMapping(EmptyDict, ReadCsv(rows))

AlignerStopped == pc \in {"done", "crashed", "exit1"}

load_alignment_map ==
    /\ AlignerStopped
    /\ ipc = "start"
    /\ mapping' = LoadAlignmentMap(artifactExists, artifact)
    /\ ipc' = "map_loaded"
    /\ UNCHANGED <<catalogExists, catalog, jsonPathExists, files, pc, cmekg_groups,
                   extracted_groups, valid_files_count, total_triples, next_group,
                   searched, search_out, all_results, artifactExists, artifact,
                   cleaned_triplets>>
    /\ UNCHANGED graphVars

----------------------------------------------------------------------------
(* KnowledgeGraphImporter.prepare_data                                     *)

\* a default record that links instead of creating
MappingGetDefaultLink(m, raw, label) ==
    IF <<raw, label>> \in DOMAIN m THEN m[<<raw, label>>]
    ELSE [target_name |-> raw, action |-> "[link] Link Existing"]

\* mapping.get(key, {"target_name": raw, "action": "Create New"})
MappingGet(m, raw, label) ==
    IF <<raw, label>> \in DOMAIN m THEN m[<<raw, label>>]
    ELSE [target_name |-> raw, action |-> DefaultCreateNew]

\* t["start"], t["start_label"], ... raise KeyError when the key is absent
WellFormed(t) ==
    /\ t.start # AbsentName
    /\ t.start_label # AbsentLabel
    /\ t.end # AbsentName
    /\ t.end_label # AbsentLabel
    /\ t.type_ # AbsentName

CleanTriple(m, t, source_file) ==
    LET start_label == normalize_label(t.start_label)
        end_label == normalize_label(t.end_label)
        start_info == MappingGet(m, t.start, start_label)
        end_info == MappingGet(m, t.end, end_label)
    IN  [start_name |-> start_info.target_name,
         start_label |-> start_label,
         start_is_new |-> Contains(start_info.action, "Create New"),
         end_name |-> end_info.target_name,
         end_label |-> end_label,
         end_is_new |-> Contains(end_info.action, "Create New"),
         rel_type |-> t.type_,
         source |-> source_file]

\* the triples loop of one file: the first KeyError leaves the loop and the
\* file (the try block spans the whole file)
RECURSIVE CleanTriples(_, _, _, _)
CleanTriples(cleaned, m, ts, source_file) ==
    IF ts = <<>> \/ ~WellFormed(Head(ts)) THEN cleaned
    ELSE CleanTriples(Append(cleaned, CleanTriple(m, Head(ts), source_file)),
                      m, Tail(ts), source_file)

RECURSIVE PrepareFiles(_, _, _, _)
PrepareFiles(cleaned, m, fs, i) ==
    IF i > Len(fs) THEN cleaned
    ELSE PrepareFiles(
             IF fs[i].parses
             THEN CleanTriples(cleaned, m, fs[i].triples, SourceFile[i])
             ELSE cleaned,
             m, fs, i + 1)

PrepareData(exists, fs, m) ==
    IF ~exists THEN <<>> ELSE PrepareFiles(<<>>, m, fs, 1)

prepare_data ==
    /\ ipc = "map_loaded"
    /\ cleaned_triplets' = PrepareData(jsonPathExists, files, mapping)
    /\ ipc' = "prepared"
    /\ UNCHANGED <<catalogExists, catalog, jsonPathExists, files, pc, cmekg_groups,
                   extracted_groups, valid_files_count, total_triples, next_group,
                   searched, search_out, all_results, artifactExists, artifact,
                   mapping>>
    /\ UNCHANGED graphVars

----------------------------------------------------------------------------
(* Specification of the pipeline: aligner run, then the importer's          *)
(* load_alignment_map and prepare_data                                     *)

GraphIdle ==
    /\ nodes = {}
    /\ edges = {}
    /\ next_id = 1
    /\ clock = 0
    /\ bpc = "idle"
    /\ triplets = <<>>
    /\ grouped = <<>>
    /\ current_batch = 0
    /\ failed_groups = {}
    /\ runs = 0
    /\ history = <<>>

Init ==
    /\ catalogExists \in BOOLEAN
    /\ catalog \in (IF catalogExists THEN Catalogs ELSE {<<>>})
    /\ jsonPathExists \in BOOLEAN
    /\ files \in (IF jsonPathExists THEN FileLists ELSE {<<>>})
    /\ pc = "start"
    /\ cmekg_groups = EmptyDict
    /\ extracted_groups = <<>>
    /\ valid_files_count = 0
    /\ total_triples = 0
    /\ next_group = 0
    /\ searched = {}
    /\ search_out = {}
    /\ all_results = <<>>
    /\ artifactExists = FALSE
    /\ artifact = <<>>
    /\ ipc = "start"
    /\ mapping = EmptyDict
    /\ cleaned_triplets = <<>>
    /\ GraphIdle

Next ==
    \/ load_cmekg_data
    \/ load_extracted_data
    \/ align_group
    \/ export_results
    \/ load_alignment_map
    \/ prepare_data

Spec == Init /\ [][Next]_vars

----------------------------------------------------------------------------
(* Properties of the pipeline                                              *)

\* rows of a sequence of alignment rows recorded for (name, label)
RowsFor(rows, name, label) ==
    {i \in DOMAIN rows : rows[i].extracted_name = name /\ rows[i].label = label}

\* the (mention, normalized label) pairs load_extracted_data collected
CollectedPairs ==
    UNION {{<<name, extracted_groups[k].label>> : name \in extracted_groups[k].names} :
              k \in DOMAIN extracted_groups}

\* the reference entity a matched_id names
CatalogEntity(id) == catalog[id]

\* C1: every match recorded for a mention under label L is a reference entity
\* whose normalized label is L (its id and its name), whatever entities of the
\* same name exist under other labels.
C1_LabelIsolation ==
    \A i \in DOMAIN all_results :
        LET r == all_results[i]
        IN  r.matched_id # NoId =>
               /\ r.matched_id \in DOMAIN catalog
               /\ CleanLabel(CatalogEntity(r.matched_id).label) = r.label
               /\ CatalogEntity(r.matched_id).name = r.matched_name

\* a mention was matched under its label while an entity of the same name as
\* the mention exists under another label
C1_Witness ==
    \E i \in DOMAIN all_results :
        /\ all_results[i].matched_id # NoId
        /\ \E j \in DOMAIN catalog :
              /\ catalog[j].name = all_results[i].extracted_name
              /\ CleanLabel(catalog[j].label) # all_results[i].label

\* C4: when run() has finished, every collected (mention, normalized label)
\* pair has exactly one row in all_results and in the written artifact, and
\* there is no other row.
C4_AlignmentComplete ==
    pc = "done" =>
        /\ \A p \in CollectedPairs :
              /\ Cardinality(RowsFor(all_results, p[1], p[2])) = 1
              /\ (all_results # <<>>) =>
                    /\ artifactExists
                    /\ Cardinality(RowsFor(artifact, p[1], p[2])) = 1
        /\ \A i \in DOMAIN all_results :
              <<all_results[i].extracted_name, all_results[i].label>> \in CollectedPairs
        /\ Len(all_results) = Cardinality(CollectedPairs)
        /\ (all_results # <<>>) => Len(artifact) = Cardinality(CollectedPairs)

\* the occurrences of mention strings in the parsed files, by normalized label
StartOccurrences(name, label) ==
    {<<i, j>> \in {q \in (DOMAIN files) \X (1..MaxTriples) :
                      q[2] \in DOMAIN files[q[1]].triples} :
        /\ files[i].triples[j].start = name
        /\ normalize_label(GetLabel(files[i].triples[j].start_label)) = label}

\* run() finished over a mention seen twice under one label, with a label that
\* has a reference group and a label that has none
C4_Witness ==
    /\ pc = "done"
    /\ \E p \in CollectedPairs : Cardinality(StartOccurrences(p[1], p[2])) >= 2
    /\ \E p \in CollectedPairs : p[2] \in DOMAIN cmekg_groups
    /\ \E p \in CollectedPairs : p[2] \notin DOMAIN cmekg_groups

\* thresholds an operator may configure, in units of 1e-5
Thresholds == {0, 84996, 84997, 85000, 91000, 100000, 100001}

\* C7: for the search output of the run and thresholds t1 <= t2, a mention
\* that is LINK under t2 is LINK under t1.
C7_ThresholdMonotone ==
    \A o \in search_out :
        \A t1, t2 \in Thresholds :
            (t1 <= t2 /\ Decide(o.score, t2) = LinkExisting)
                => Decide(o.score, t1) = LinkExisting

\* a search result whose decision moves from LINK to CREATE between two
\* thresholds
C7_Witness ==
    \E o \in search_out :
        \E t1, t2 \in Thresholds :
            /\ t1 < t2
            /\ Decide(o.score, t1) = LinkExisting
            /\ Decide(o.score, t2) = CreateNew

\* C8: the rows of a label without a reference group are CREATE with score 0.0
\* and no match, every mention of a processed group of such a label has its
\* row, and no embedding or search ran for such a label.
C8_AbsentLabelGroup ==
    /\ \A i \in DOMAIN all_results :
          all_results[i].label \notin DOMAIN cmekg_groups =>
             /\ all_results[i].action = CreateNew
             /\ all_results[i].score = 0
             /\ all_results[i].matched_name = NaNName
             /\ all_results[i].matched_id = NoId
    /\ \A k \in DOMAIN extracted_groups :
          (pc \in {"groups", "done"} /\ k < next_group
              /\ extracted_groups[k].label \notin DOMAIN cmekg_groups) =>
             \A name \in extracted_groups[k].names :
                RowsFor(all_results, name, extracted_groups[k].label) # {}
    /\ searched \subseteq DOMAIN cmekg_groups

\* a label without a reference group was processed next to a searched label
C8_Witness ==
    /\ \E i \in DOMAIN all_results : all_results[i].label \notin DOMAIN cmekg_groups
    /\ searched # {}

\* C10: when embedding or search fails for one label group, the records of
\* every other label group are written to the alignment artifact.
C10_FailureIsolation ==
    pc = "crashed" =>
        \A k \in DOMAIN extracted_groups :
            k # next_group =>
               \A name \in extracted_groups[k].names :
                  /\ artifactExists
                  /\ RowsFor(artifact, name, extracted_groups[k].label) # {}

\* the raw triples prepare_data emits, in order, with the index of their file
RECURSIVE WellFormedPrefix(_)
WellFormedPrefix(ts) ==
    IF ts = <<>> \/ ~WellFormed(Head(ts)) THEN <<>>
    ELSE <<Head(ts)>> \o WellFormedPrefix(Tail(ts))

RECURSIVE EmittedFrom(_, _)
EmittedFrom(fs, i) ==
    IF i > Len(fs) THEN <<>>
    ELSE (IF fs[i].parses THEN WellFormedPrefix(fs[i].triples) ELSE <<>>)
         \o EmittedFrom(fs, i + 1)

EmittedRaw == IF jsonPathExists THEN EmittedFrom(files, 1) ELSE <<>>

\* C5: an endpoint whose (mention, normalized label) key is not in the
\* alignment map gets the raw mention as its canonical name and is_new true,
\* and its triple is emitted all the same.
C5_LookupMissDefault ==
    ipc = "prepared" =>
        /\ Len(cleaned_triplets) = Len(EmittedRaw)
        /\ \A k \in DOMAIN cleaned_triplets :
              LET t == EmittedRaw[k]
                  c == cleaned_triplets[k]
              IN  /\ <<t.start, normalize_label(t.start_label)>> \notin DOMAIN mapping
                        => (c.start_name = t.start /\ c.start_is_new)
                  /\ <<t.end, normalize_label(t.end_label)>> \notin DOMAIN mapping
                        => (c.end_name = t.end /\ c.end_is_new)

\* prepare_data ran over a map that exists and lacks the key of an endpoint
C5_Witness ==
    /\ ipc = "prepared"
    /\ DOMAIN mapping # {}
    /\ \E k \in DOMAIN cleaned_triplets :
          <<EmittedRaw[k].start, normalize_label(EmittedRaw[k].start_label)>>
              \notin DOMAIN mapping

\* the endpoint (mention, normalized label) resolved as the decision recorded
\* for it by the Matcher says
ResolvedAsDecided(mention, label, name, is_new) ==
    \A i \in RowsFor(all_results, mention, label) :
        IF all_results[i].action = LinkExisting
        THEN name = all_results[i].matched_name /\ ~is_new
        ELSE name = mention /\ is_new

\* C6: for a mention whose label has a reference group the decision is LINK
\* exactly when the similarity of its best match is >= the threshold; ingestion
\* uses the matched name on LINK and the mention on CREATE, and is_new is true
\* exactly on CREATE.
C6_DecisionRule ==
    /\ \A i \in DOMAIN all_results :
          all_results[i].label \in DOMAIN cmekg_groups =>
             \E o \in search_out :
                /\ o.label = all_results[i].label
                /\ o.name = all_results[i].extracted_name
                /\ \A r \in Range(cmekg_groups[o.label]) :
                      Similarity(o.name, r.name) <= o.score
                /\ (all_results[i].action = LinkExisting)
                      <=> (o.score >= SIMILARITY_THRESHOLD)
                /\ (all_results[i].action = CreateNew)
                      <=> (o.score < SIMILARITY_THRESHOLD)
    /\ (pc = "done" /\ ipc = "prepared") =>
          \A k \in DOMAIN cleaned_triplets :
             LET c == cleaned_triplets[k]
                 t == EmittedRaw[k]
             IN  /\ c.start_label \in DOMAIN cmekg_groups
                       => ResolvedAsDecided(t.start, c.start_label,
                                            c.start_name, c.start_is_new)
                 /\ c.end_label \in DOMAIN cmekg_groups
                       => ResolvedAsDecided(t.end, c.end_label,
                                            c.end_name, c.end_is_new)

----------------------------------------------------------------------------
(* KnowledgeGraphImporter.batch_import against the graph store             *)

MaxBatch == 2        \* canonical triples in one batch_import call
MaxRuns == 2         \* batch_import calls

C(sn, sl, en, el, ty, src) ==
    [start_name |-> sn, start_label |-> sl, start_is_new |-> TRUE,
     end_name |-> en, end_label |-> el, end_is_new |-> TRUE,
     rel_type |-> ty, source |-> src]

\* canonical triples as prepare_data emits them
CanonicalTriples ==
    { C("a", <<"D">>, "b", <<"P">>, "T", "doc1"),
      C("a", <<"D">>, "b", <<"P">>, "T", "doc2"),    \* the same fact, other document
      C("b", <<"D">>, "a", <<"D">>, "T", "doc1") }   \* another group, shares node a:D

TripletLists == SeqsUpTo(CanonicalTriples, MaxBatch)

\* key = (t["rel_type"], t["start_label"], t["end_label"])
GroupKey(t) == <<t.rel_type, t.start_label, t.end_label>>

\* grouped[key].append(t), keys in insertion order
RECURSIVE GroupTriplets(_, _)
GroupTriplets(g, ts) ==
    IF ts = <<>> THEN g
    ELSE LET t == Head(ts)
             key == GroupKey(t)
             g1 == IF \E i \in DOMAIN g : g[i].key = key
                   THEN [i \in DOMAIN g |->
                           IF g[i].key = key
                           THEN [g[i] EXCEPT !.batch = Append(@, t)]
                           ELSE g[i]]
                   ELSE Append(g, [key |-> key, batch |-> <<t>>])
         IN  GroupTriplets(g1, Tail(ts))

\* The store.  st = [nodes, edges, next_id].
\* MERGE (n:`label` {name: name}) ON CREATE SET n.source = 'PDF_Extraction',
\* n.created_at = timestamp(): binds every node of that label and name, and
\* creates one when there is none.
NodeMatches(st, label, name) ==
    {n.id : n \in {m \in st.nodes : m.label = label /\ m.name = name}}

\* CREATE in place of MERGE: a node is added whether or not one exists
MergeNodeAlwaysCreate(st, label, name, now) ==
    [st EXCEPT
        !.nodes = @ \cup {[id |-> st.next_id, label |-> label, name |-> name,
                           source |-> "PDF_Extraction", created_at |-> now]},
        !.next_id = @ + 1]

\* SET in place of ON CREATE SET: a matched node is stamped again
MergeNodeRestamp(st, label, name, now) ==
    IF NodeMatches(st, label, name) # {}
    THEN [st EXCEPT
            !.nodes = {IF n.label = label /\ n.name = name
                       THEN [n EXCEPT !.source = "PDF_Extraction", !.created_at = now]
                       ELSE n : n \in st.nodes}]
    ELSE [st EXCEPT
            !.nodes = @ \cup {[id |-> st.next_id, label |-> label, name |-> name,
                               source |-> "PDF_Extraction", created_at |-> now]},
            !.next_id = @ + 1]

MergeNode(st, label, name, now) ==
    IF NodeMatches(st, label, name) # {} THEN st
    ELSE [st EXCEPT
            !.nodes = @ \cup {[id |-> st.next_id, label |-> label, name |-> name,
                               source |-> "PDF_Extraction", created_at |-> now]},
            !.next_id = @ + 1]

\* CREATE in place of MERGE: an edge is added whether or not one exists
MergeEdgeAlwaysCreate(st, s, rel_type, e, source, now) ==
    [st EXCEPT
        !.edges = @ \cup {[id |-> st.next_id, s |-> s, type |-> rel_type, e |-> e,
                           source |-> source, confidence |-> "High",
                           created_at |-> now]},
        !.next_id = @ + 1]

\* SET in place of ON CREATE SET: a matched edge takes the row's provenance
MergeEdgeOverwrite(st, s, rel_type, e, source, now) ==
    IF \E r \in st.edges : r.s = s /\ r.type = rel_type /\ r.e = e
    THEN [st EXCEPT
            !.edges = {IF r.s = s /\ r.type = rel_type /\ r.e = e
                       THEN [r EXCEPT !.source = source, !.confidence = "High",
                                      !.created_at = now]
                       ELSE r : r \in st.edges}]
    ELSE [st EXCEPT
            !.edges = @ \cup {[id |-> st.next_id, s |-> s, type |-> rel_type, e |-> e,
                               source |-> source, confidence |-> "High",
                               created_at |-> now]},
            !.next_id = @ + 1]

\* MERGE (s)-[r:`rel_type`]->(e) ON CREATE SET r.source = row.source,
\* r.confidence = 'High', r.created_at = timestamp(), for one bound pair (s, e)
MergeEdge(st, s, rel_type, e, source, now) ==
    IF \E r \in st.edges : r.s = s /\ r.type = rel_type /\ r.e = e THEN st
    ELSE [st EXCEPT
            !.edges = @ \cup {[id |-> st.next_id, s |-> s, type |-> rel_type, e |-> e,
                               source |-> source, confidence |-> "High",
                               created_at |-> now]},
            !.next_id = @ + 1]

RECURSIVE MergeEdges(_, _, _, _, _)
MergeEdges(st, pairs, rel_type, source, now) ==
    IF pairs = {} THEN st
    ELSE LET p == CHOOSE q \in pairs : TRUE
         IN  MergeEdges(MergeEdge(st, p[1], rel_type, p[2], source, now),
                        pairs \ {p}, rel_type, source, now)

\* CREATE in place of MERGE for the relationship only
MergeRowCreateEdge(st, row, now) ==
    LET st1 == MergeNode(st, row.start_label, row.start_name, now)
        st2 == MergeNode(st1, row.end_label, row.end_name, now)
        s == CHOOSE id \in NodeMatches(st2, row.start_label, row.start_name) : TRUE
        e == CHOOSE id \in NodeMatches(st2, row.end_label, row.end_name) : TRUE
    IN  MergeEdgeAlwaysCreate(st2, s, row.rel_type, e, row.source, now)

\* the three MERGE clauses for one row of UNWIND $batch
MergeRow(st, row, now) ==
    LET st1 == MergeNode(st, row.start_label, row.start_name, now)
        st2 == MergeNode(st1, row.end_label, row.end_name, now)
        pairs == NodeMatches(st2, row.start_label, row.start_name)
                    \X NodeMatches(st2, row.end_label, row.end_name)
    IN  MergeEdges(st2, pairs, row.rel_type, row.source, now)

\* session.run(query, batch=batch): the rows in order, in one transaction
RECURSIVE RunQuery(_, _, _)
RunQuery(st, batch, now) ==
    IF batch = <<>> THEN st
    ELSE RunQuery(MergeRow(st, Head(batch), now), Tail(batch), now)

Store == [nodes |-> nodes, edges |-> edges, next_id |-> next_id]
Graph == [nodes |-> nodes, edges |-> edges]

\* the record of the previous call, if any, reduced to its outcome (bookkeeping
\* for the properties)
LastCall(h) ==
    IF h = <<>> THEN <<>>
    ELSE <<[h[Len(h)] EXCEPT !.before = h[Len(h)].after]>>

\* batch_import up to the loop over the groups
batch_import ==
    /\ bpc = "idle"
    /\ runs < MaxRuns
    /\ \E ts \in TripletLists :
         /\ triplets' = ts
         /\ runs' = runs + 1
         /\ failed_groups' = {}
         /\ current_batch' = 0
         /\ history' = Append(LastCall(history),
                               [triplets |-> ts, before |-> Graph,
                                after |-> Graph, failed |-> {}])
         /\ IF ts = <<>>
            THEN \* if not triplets: return
                 /\ grouped' = <<>>
                 /\ bpc' = "idle"
            ELSE /\ grouped' = GroupTriplets(<<>>, ts)
                 /\ bpc' = "writing"
    /\ UNCHANGED <<nodes, edges, next_id, clock>>
    /\ UNCHANGED pipeVars

\* the try block around the loop instead of in it: the first failing write
\* ends the call
write_group_abort ==
    /\ bpc = "writing"
    /\ current_batch < Len(grouped)
    /\ LET g == grouped[current_batch + 1]
           last == current_batch + 1 = Len(grouped)
       IN  /\ current_batch' = current_batch + 1
           /\ clock' = runs
           /\ \/ LET st == RunQuery(Store, g.batch, runs)
                 IN  /\ nodes' = st.nodes
                     /\ edges' = st.edges
                     /\ next_id' = st.next_id
                     /\ failed_groups' = failed_groups
                     /\ bpc' = IF last THEN "idle" ELSE "writing"
                     /\ history' = [history EXCEPT ![Len(history)].after =
                                       [nodes |-> st.nodes, edges |-> st.edges]]
              \/ /\ failed_groups' = failed_groups \cup {g.key}
                 /\ bpc' = "idle"
                 /\ history' = [history EXCEPT ![Len(history)].failed =
                                   @ \cup {g.key}]
                 /\ UNCHANGED <<nodes, edges, next_id>>
    /\ UNCHANGED <<triplets, grouped, runs>>
    /\ UNCHANGED pipeVars

\* one iteration of "for (rel_type, start_label, end_label), batch in
\* grouped.items()": the write of the group commits, or it raises, the
\* transaction is rolled back and the except clause logs the error
write_group ==
    /\ bpc = "writing"
    /\ current_batch < Len(grouped)
    /\ LET g == grouped[current_batch + 1]
           last == current_batch + 1 = Len(grouped)
       IN  /\ current_batch' = current_batch + 1
           /\ clock' = runs
           /\ bpc' = IF last THEN "idle" ELSE "writing"
           /\ \/ LET st == RunQuery(Store, g.batch, runs)
                 IN  /\ nodes' = st.nodes
                     /\ edges' = st.edges
                     /\ next_id' = st.next_id
                     /\ failed_groups' = failed_groups
                     /\ history' = [history EXCEPT ![Len(history)].after =
                                       [nodes |-> st.nodes, edges |-> st.edges]]
              \/ /\ failed_groups' = failed_groups \cup {g.key}
                 /\ history' = [history EXCEPT ![Len(history)].failed =
                                   @ \cup {g.key}]
                 /\ UNCHANGED <<nodes, edges, next_id>>
    /\ UNCHANGED <<triplets, grouped, runs>>
    /\ UNCHANGED pipeVars

\* graphs the store may hold before the first call: empty, one reference
\* node, a reference node stored twice, two reference nodes and an edge
RefNode(id, label, name) ==
    [id |-> id, label |-> label, name |-> name, source |-> "CMeKG", created_at |-> 0]

RefEdge(id, s, type, e) ==
    [id |-> id, s |-> s, type |-> type, e |-> e, source |-> "CMeKG",
     confidence |-> "Low", created_at |-> 0]

StartGraphs ==
    { [nodes |-> {}, edges |-> {}],
      [nodes |-> {RefNode(1, <<"D">>, "a")}, edges |-> {}],
      [nodes |-> {RefNode(1, <<"D">>, "a"), RefNode(2, <<"D">>, "a")}, edges |-> {}],
      [nodes |-> {RefNode(1, <<"D">>, "a"), RefNode(3, <<"P">>, "b")},
       edges |-> {RefEdge(4, 1, "T", 3)}] }

PipelineIdle ==
    /\ catalogExists = FALSE
    /\ catalog = <<>>
    /\ jsonPathExists = FALSE
    /\ files = <<>>
    /\ pc = "start"
    /\ cmekg_groups = EmptyDict
    /\ extracted_groups = <<>>
    /\ valid_files_count = 0
    /\ total_triples = 0
    /\ next_group = 0
    /\ searched = {}
    /\ search_out = {}
    /\ all_results = <<>>
    /\ artifactExists = FALSE
    /\ artifact = <<>>
    /\ ipc = "start"
    /\ mapping = EmptyDict
    /\ cleaned_triplets = <<>>

InitImport ==
    /\ PipelineIdle
    /\ \E g \in StartGraphs :
         /\ nodes = g.nodes
         /\ edges = g.edges
    /\ next_id = 5
    /\ clock = 0
    /\ bpc = "idle"
    /\ triplets = <<>>
    /\ grouped = <<>>
    /\ current_batch = 0
    /\ failed_groups = {}
    /\ runs = 0
    /\ history = <<>>

NextImport ==
    \/ batch_import
    \/ write_group

SpecImport == InitImport /\ [][NextImport]_vars

----------------------------------------------------------------------------
(* Properties of batch_import                                              *)

\* the call in progress (or the last one) and the one before it
ThisCall == history[Len(history)]
PreviousCall == history[1]

\* C2: a batch_import call on the list of the previous call, all of whose
\* groups were written, leaves the graph as that call left it: the same nodes
\* and edges, hence the same counts.
C2_IdempotentIngestion ==
    (/\ Len(history) = 2
     /\ ThisCall.triplets = PreviousCall.triplets
     /\ PreviousCall.failed = {})
        => /\ Graph = PreviousCall.after
           /\ Cardinality(nodes) = Cardinality(PreviousCall.after.nodes)
           /\ Cardinality(edges) = Cardinality(PreviousCall.after.edges)

\* the second of two complete calls on one non-empty list has returned, and
\* the first one had created a node
C2_Witness ==
    /\ bpc = "idle"
    /\ Len(history) = 2
    /\ ThisCall.triplets = PreviousCall.triplets
    /\ ThisCall.triplets # <<>>
    /\ PreviousCall.failed = {}
    /\ ThisCall.failed = {}
    /\ \E n \in nodes : n.source = "PDF_Extraction" /\ n.created_at = 1

NoDuplicates(ns, es) ==
    /\ \A n1, n2 \in ns : (n1.label = n2.label /\ n1.name = n2.name) => n1 = n2
    /\ \A e1, e2 \in es : (e1.s = e2.s /\ e1.type = e2.type /\ e1.e = e2.e) => e1 = e2

\* the elements the store held before the first call (created_at 0; batch_import
\* stamps what it creates with a later time and removes nothing)
StartNodes == {n \in nodes : n.created_at = 0}
StartEdges == {e \in edges : e.created_at = 0}

\* C3: starting without duplicates, the graph never holds two nodes of one
\* (label, name) nor two edges of one (subject node, type, object node).
C3_GraphInvariant ==
    NoDuplicates(StartNodes, StartEdges) => NoDuplicates(nodes, edges)

\* the triples of a call that state the fact an edge stands for
SameFact(t, e) ==
    \E s, o \in nodes :
        /\ s.id = e.s /\ o.id = e.e
        /\ t.rel_type = e.type
        /\ t.start_label = s.label /\ t.start_name = s.name
        /\ t.end_label = o.label /\ t.end_name = o.name

\* two calls of two triples each have run without a failure on a graph that
\* started without duplicates, a fact was stated twice in one list, and a node
\* is used by edges of two groups
C3_Witness ==
    /\ bpc = "idle"
    /\ NoDuplicates(StartNodes, StartEdges)
    /\ Len(history) = 2
    /\ ThisCall.failed = {} /\ PreviousCall.failed = {}
    /\ Len(ThisCall.triplets) = 2 /\ Len(PreviousCall.triplets) = 2
    /\ \E e \in edges : SameFact(ThisCall.triplets[1], e) /\ SameFact(ThisCall.triplets[2], e)
    /\ \E e1, e2 \in edges : e1.e = e2.s /\ e1.created_at > 0 /\ e2.created_at > 0

\* the source of the first triple of a list that states the fact of edge e
RECURSIVE FirstSource(_, _)
FirstSource(ts, e) ==
    IF ts = <<>> THEN "none"
    ELSE IF SameFact(Head(ts), e) THEN Head(ts).source
    ELSE FirstSource(Tail(ts), e)

\* C9: a call leaves every edge that existed before it as it was (provenance
\* and confidence included), adds at most one edge per (subject node, type,
\* object node), and every edge it adds carries the source of the first triple
\* of the call that states its fact.
C9_FirstWriterProvenance ==
    history # <<>> =>
        /\ ThisCall.before.edges \subseteq edges
        /\ \A e \in edges \ ThisCall.before.edges :
              /\ e.source = FirstSource(ThisCall.triplets, e)
              /\ e.confidence = "High"
              /\ \A e2 \in edges :
                    (e2.s = e.s /\ e2.type = e.type /\ e2.e = e.e) => e2 = e

\* a call has returned whose list states the fact of an edge made by an
\* earlier call or by an earlier triple of this call, under another source
C9_Witness ==
    /\ bpc = "idle"
    /\ history # <<>>
    /\ ThisCall.failed = {}
    /\ \E e \in edges :
          /\ e.created_at > 0
          /\ \E i \in DOMAIN ThisCall.triplets :
                /\ SameFact(ThisCall.triplets[i], e)
                /\ ThisCall.triplets[i].source # e.source

\* the graph (ns, es) holds the fact of the canonical triple t: its two nodes
\* and an edge of its type between them
Written(t, ns, es) ==
    \E s, o \in ns :
        /\ s.label = t.start_label /\ s.name = t.start_name
        /\ o.label = t.end_label /\ o.name = t.end_name
        /\ \E e \in es : e.s = s.id /\ e.type = t.rel_type /\ e.e = o.id

\* the step of the loop that handles the next group
GroupStep == current_batch' = current_batch + 1

\* C11: a group whose write fails adds no node and no edge and is recorded as
\* failed, a group whose write succeeds has all its triples in the graph, and
\* after either the loop goes on to the next group: the call returns exactly
\* when the last group was handled, and then every triple of every group that
\* did not fail is in the graph.
C11_IngestFailureIsolation ==
    [][GroupStep =>
          LET g == grouped[current_batch']
          IN  /\ IF g.key \in failed_groups'
                 THEN nodes' = nodes /\ edges' = edges
                 ELSE \A i \in DOMAIN g.batch : Written(g.batch[i], nodes', edges')
              /\ (bpc' = "idle") <=> (current_batch' = Len(grouped))
              /\ (bpc' = "writing") <=> (current_batch' < Len(grouped))
              /\ bpc' = "idle" =>
                    \A i \in DOMAIN triplets :
                        GroupKey(triplets[i]) \notin failed_groups'
                            => Written(triplets[i], nodes', edges')]_vars

\* a call has returned whose first group failed and whose second group was
\* written after it
C11_Witness ==
    /\ bpc = "idle"
    /\ Len(grouped) = 2
    /\ current_batch = 2
    /\ failed_groups = {grouped[1].key}
    /\ Graph # ThisCall.before
    /\ \A i \in DOMAIN grouped[2].batch : Written(grouped[2].batch[i], nodes, edges)
    /\ \E i \in DOMAIN grouped[1].batch : ~Written(grouped[1].batch[i], nodes, edges)

----------------------------------------------------------------------------
(* Properties of the handling of malformed input                           *)

\* the well-formed raw triples of all parseable files, in order
RECURSIVE WellFormedFrom(_, _)
WellFormedFrom(fs, i) ==
    IF i > Len(fs) THEN <<>>
    ELSE (IF fs[i].parses
          THEN [k \in DOMAIN SelectSeq(fs[i].triples, WellFormed) |->
                   [raw |-> SelectSeq(fs[i].triples, WellFormed)[k],
                    source |-> SourceFile[i]]]
          ELSE <<>>)
         \o WellFormedFrom(fs, i + 1)

\* C12: prepare_data drops a triple that lacks a required field on its own:
\* every well-formed triple of every parseable file, before or after a
\* malformed one, yields exactly one canonical triple, in order, with its
\* relation type copied verbatim.
C12_MalformedDroppedSingly ==
    ipc = "prepared" =>
        /\ Len(cleaned_triplets) = Len(WellFormedFrom(files, 1))
        /\ \A k \in DOMAIN cleaned_triplets :
              k \in DOMAIN WellFormedFrom(files, 1) =>
                 /\ cleaned_triplets[k].rel_type = WellFormedFrom(files, 1)[k].raw.type_
                 /\ cleaned_triplets[k].source = WellFormedFrom(files, 1)[k].source

\* load_extracted_data has returned
ExtractedLoaded == pc \in {"groups", "done", "crashed"}

\* the endpoints a raw triple names: (string, normalized label) pairs
Endpoints(t) ==
    (IF t.start = AbsentName THEN {}
     ELSE {<<t.start, normalize_label(GetLabel(t.start_label))>>})
    \cup
    (IF t.end = AbsentName THEN {}
     ELSE {<<t.end, normalize_label(GetLabel(t.end_label))>>})

\* C13: both endpoints of every triple of every parseable file are in the
\* mention group of their normalized label, also for a triple that lacks a
\* required field and for the triples that follow such a triple in its file.
C13_MaximalCoverage ==
    ExtractedLoaded =>
        \A i \in DOMAIN files :
            files[i].parses =>
                \A j \in DOMAIN files[i].triples :
                    Endpoints(files[i].triples[j]) \subseteq CollectedPairs

\* C14: a stage whose required input is missing aborts instead of going on
\* with empty data: without the catalog file the aligner stops at
\* load_cmekg_data, without the extraction path it never reaches the loop over
\* the label groups, and without the alignment artifact the importer neither
\* returns a map nor prepares triples for the write.
C14_MissingInputFatal ==
    /\ ~catalogExists => pc \in {"start", "exit1"}
    /\ ~jsonPathExists => pc \in {"start", "cmekg_loaded", "exit1"}
    /\ ~artifactExists => (ipc = "start" /\ cleaned_triplets = <<>>)

----------------------------------------------------------------------------
(* Properties of the ingestion groups                                      *)

\* the node identities (label, name) the query of a group merges
NodeIdentities(batch) ==
    {<<batch[i].start_label, batch[i].start_name>> : i \in DOMAIN batch}
    \cup {<<batch[i].end_label, batch[i].end_name>> : i \in DOMAIN batch}

\* C15: no two groups (relation type, subject label, object label) of one
\* call write the same node identity (label, name); this is what would let
\* one worker per group run without synchronization and end with one node per
\* identity.
C15_GroupIndependence ==
    \A i, j \in DOMAIN grouped :
        i # j => NodeIdentities(grouped[i].batch) \cap NodeIdentities(grouped[j].batch) = {}

----------------------------------------------------------------------------
(* Frame of batch_import                                                   *)

Ids(elements) == {x.id : x \in elements}

\* C16: no step of batch_import deletes a node or an edge or changes a
\* property of one that exists; an element it adds is a new element, and a
\* node it adds carries the stamps of this write (source marker, timestamp).
C16_UpsertFrame ==
    [][/\ nodes \subseteq nodes'
       /\ edges \subseteq edges'
       /\ \A n \in nodes' \ nodes :
             /\ n.id \notin Ids(nodes) \cup Ids(edges)
             /\ n.source = "PDF_Extraction"
             /\ n.created_at = clock'
       /\ \A e \in edges' \ edges :
             /\ e.id \notin Ids(nodes) \cup Ids(edges)
             /\ e.created_at = clock']_vars

\* the nodes of identity (label, name)
NodesOf(label, name) == {n \in nodes : n.label = label /\ n.name = name}

\* a second call has returned without a failure; one of its triples names a
\* reference node (a LINK) that still carries its own stamps, and one names a
\* node the first call created, which still carries the stamps of that call
C16_Witness ==
    /\ bpc = "idle"
    /\ runs = 2
    /\ ThisCall.failed = {}
    /\ \E i \in DOMAIN triplets :
          \E n \in NodesOf(triplets[i].start_label, triplets[i].start_name) :
              n.source = "CMeKG" /\ n.created_at = 0
    /\ \E i \in DOMAIN triplets :
          \E n \in NodesOf(triplets[i].end_label, triplets[i].end_name) :
              n.source = "PDF_Extraction" /\ n.created_at = 1

----------------------------------------------------------------------------
(* Properties of load_extracted_data over files that fail                  *)

\* a file load_extracted_data can process to its end: it parses and none of
\* its triples raises
Processable(f) ==
    /\ f.parses
    /\ \A j \in DOMAIN f.triples :
          f.triples[j].start # AbsentName /\ f.triples[j].end # AbsentName

\* the mentions of the files that can be processed
ProcessableMentions ==
    UNION {Endpoints(files[i].triples[j]) :
              <<i, j>> \in {q \in (DOMAIN files) \X (1..MaxTriples) :
                              /\ Processable(files[q[1]])
                              /\ q[2] \in DOMAIN files[q[1]].triples}}

\* C17: a file that cannot be processed (unparseable, or raising part-way
\* through its records) contributes no mention and is not counted as read;
\* every other file contributes all its mentions and is counted.
C17_FileLevelExclusion ==
    ExtractedLoaded =>
        /\ CollectedPairs = ProcessableMentions
        /\ valid_files_count = Cardinality({i \in DOMAIN files : Processable(files[i])})

----------------------------------------------------------------------------
(* Re-running the importer on the same canonical triples                   *)

\* the operator runs the importer again over the same alignment artifact and
\* extraction files: prepare_data hands batch_import the same list
rerun_batch_import ==
    /\ batch_import
    /\ runs > 0 => triplets' = triplets

NextRerun ==
    \/ rerun_batch_import
    \/ write_group

SpecRerun == InitImport /\ [][NextRerun]_vars

\* batch_import(ts) on the store st when no write fails
RECURSIVE WriteGroups(_, _, _)
WriteGroups(st, g, now) ==
    IF g = <<>> THEN st
    ELSE WriteGroups(RunQuery(st, Head(g).batch, now), Tail(g), now)

FailureFreeRun(st, ts) == WriteGroups(st, GroupTriplets(<<>>, ts), 1)

\* a graph without element ids and timestamps: how many nodes there are of
\* each (label, name, source) and how many edges of each (subject identity,
\* type, object identity, source, confidence)
NodeView(ns) ==
    {<<n.label, n.name, n.source,
       Cardinality({m \in ns : m.label = n.label /\ m.name = n.name
                                 /\ m.source = n.source})>> : n \in ns}

EdgeKey(ns, e) ==
    LET s == CHOOSE n \in ns : n.id = e.s
        o == CHOOSE n \in ns : n.id = e.e
    IN  <<s.label, s.name, e.type, o.label, o.name, e.source, e.confidence>>

EdgeView(ns, es) ==
    {<<EdgeKey(ns, e), Cardinality({f \in es : EdgeKey(ns, f) = EdgeKey(ns, e)})>>
        : e \in es}

\* C18: when a call on the list of all earlier calls returns without a failed
\* group, the graph holds the nodes and edges of one failure-free call on the
\* start graph, each as often as there, whatever groups failed in the earlier
\* calls.
C18_RerunConverges ==
    (bpc = "idle" /\ runs > 0 /\ failed_groups = {}) =>
        LET ff == FailureFreeRun([nodes |-> StartNodes, edges |-> StartEdges,
                                  next_id |-> 5], triplets)
        IN  /\ NodeView(nodes) = NodeView(ff.nodes)
            /\ EdgeView(nodes, edges) = EdgeView(ff.nodes, ff.edges)
            /\ Cardinality(nodes) = Cardinality(ff.nodes)
            /\ Cardinality(edges) = Cardinality(ff.edges)

\* a call in which a group failed and another was written, followed by a call
\* on the same list that wrote the failed group
C18_Witness ==
    /\ bpc = "idle"
    /\ runs = 2
    /\ Len(grouped) = 2
    /\ PreviousCall.failed # {}
    /\ ThisCall.failed = {}
    /\ \E e \in edges : e.created_at = 1
    /\ \E e \in edges : e.created_at = 2

----------------------------------------------------------------------------
(* Keys of the alignment map                                               *)

\* the lookup of (mention, label) hits the record the Matcher wrote for it
Hits(mention, label) ==
    /\ normalize_label(label) = label
    /\ <<mention, label>> \in DOMAIN mapping
    /\ \A i \in RowsFor(all_results, mention, label) :
          mapping[<<mention, label>>].action = all_results[i].action

\* C19: after a complete aligner run, every key prepare_data looks up for an
\* endpoint the aligner collected is a key of the map load_alignment_map built
\* from the artifact, with the action recorded for it, and its normalized
\* label is a fixed point of normalize_label.
C19_KeyAgreement ==
    (pc = "done" /\ ipc = "prepared") =>
        \A k \in DOMAIN EmittedRaw :
            LET t == EmittedRaw[k]
            IN  /\ Hits(t.start, normalize_label(t.start_label))
                /\ Hits(t.end, normalize_label(t.end_label))

====
